---- MODULE Spec2Model ----
(***************************************************************************)
(* Silence-based audio slicing of karljeon44/preliminary_preprocessing     *)
(* (src/main.py): Slicer.__init__, Slicer.slice, Slicer._apply_slice,      *)
(* slice_by_max_duration and slice_audio_v2.                               *)
(*                                                                         *)
(* A waveform is represented by its sample count; a slice of it by the     *)
(* pair <<lo, hi>> of the half-open sample range [lo, hi) it was cut from. *)
(* Durations are integer milliseconds, so that sr * ms / 1000 is an exact  *)
(* rational <<numerator, denominator>> and Python's round() and            *)
(* math.ceil() are computed on it as Python computes them.                 *)
(* The RMS envelope (librosa.feature.rms) is an input: one level per       *)
(* frame, with the frame count of librosa's centred framing.               *)
(***************************************************************************)
EXTENDS Integers, Sequences, FiniteSets, TLC

\* ------------------------------------------------------------------ bounds
MaxSamples == 5            \* longest waveform, in samples
MaxLevel == 2              \* envelope levels are 0..MaxLevel

\* ------------------------------------------------------- program constants
MsPerSecond == 1000        \* the literal 1000 of sr * ms / 1000
WinHops == 4               \* win_size = min(round(min_interval), 4 * hop_size)

\* --------------------------------------------------------------- input sets
SampleRates == {400, 1000, 1500}
HopMs == {1, 2}
MinIntervalMs == {1, 2}
MinLengthMs == {2, 3}
MaxSilKeptMs == {1, 2}
MaxDurationMs == {-1, 0, 2}
Levels == 0..MaxLevel
threshold == MaxLevel      \* self.threshold on the scale of the levels: only
                           \* the top level is not silent
None == -1                 \* Python's None for silence_start

NoError == [type |-> "none", at |-> "none"]

VARIABLES
  entry,          \* which function the caller invoked
  args,           \* the call's arguments
  audio,          \* len(audio) / waveform.shape[0]
  self,           \* the Slicer's fields after __init__
  pc,             \* position of the call
  rms_list,       \* the envelope, a sequence of levels
  i,              \* loop index of the scan (0-based)
  silence_start,  \* None or a frame index
  clip_start,     \* frame index
  sil_tags,       \* sequence of <<start, end>> frame ranges
  chunks,         \* what Slicer.slice returns
  k,              \* number of chunks of Slicer.slice already consumed
  out,            \* slices yielded by slice_audio_v2 so far
  err             \* the exception raised, or NoError

vars == <<entry, args, audio, self, pc, rms_list, i, silence_start,
          clip_start, sil_tags, chunks, k, out, err>>

\* ----------------------------------------------------------- pure helpers
Min(a, b) == IF a <= b THEN a ELSE b
Max(a, b) == IF a >= b THEN a ELSE b

\* math.ceil(num / den) for integers num, den with den # 0
Ceil(num, den) ==
  IF den > 0 THEN -((-num) \div den) ELSE -(num \div (-den))

\* round(num / den), den > 0, num >= 0: Python 3 rounds half to even
Round(num, den) ==
  LET q == num \div den
      r == num % den
  IN  IF 2 * r < den THEN q
      ELSE IF 2 * r > den THEN q + 1
      ELSE IF q % 2 = 0 THEN q ELSE q + 1

\* rms_list[a : b].argmin(): offset of the first minimum of the frames
\* a .. min(b, len) - 1 (0-based; a >= 0)
ArgMin(rms, a, b) ==
  LET hi == Min(b, Len(rms))
      idx == CHOOSE j \in a..(hi - 1) :
               /\ \A m \in a..(hi - 1) : rms[j + 1] <= rms[m + 1]
               /\ \A m \in a..(j - 1) : rms[m + 1] > rms[j + 1]
  IN  idx - a

\* waveform[a : b] of a waveform of n samples, 0 <= a: the range it keeps
PySlice(n, a, b) ==
  LET lo == Min(a, n)
      hi == Max(lo, Min(b, n))
  IN  <<lo, hi>>

SliceLen(s) == s[2] - s[1]

\* ------------------------------------------------- slice_by_max_duration
\* max_duration * rate, as a rational over MsPerSecond
MaxSamplesNum(max_ms, rate) == max_ms * rate

\* the test len(gen) > slice_max_duration * rate
TooLong(len, max_ms, rate) == len * MsPerSecond > MaxSamplesNum(max_ms, rate)

\* mutant: the quotient is rounded down instead of up
NChunks_Floor(len, max_ms, rate) ==
  -Ceil(-(len * MsPerSecond), MaxSamplesNum(max_ms, rate))

\* n_chunks = math.ceil(len(gen) / (slice_max_duration * rate))
NChunks(len, max_ms, rate) ==
  Ceil(len * MsPerSecond, MaxSamplesNum(max_ms, rate))

\* mutant: the piece size is rounded down instead of up
ChunkSize_Floor(len, n_chunks) == -Ceil(-len, n_chunks)

\* chunk_size = math.ceil(len(gen) / n_chunks)
ChunkSize(len, n_chunks) == Ceil(len, n_chunks)

\* [gen[j : j + chunk_size] for j in range(0, len(gen), chunk_size)]
Pieces(gen, chunk_size) ==
  LET len == SliceLen(gen)
  IN  IF chunk_size < 0 THEN <<>>
      ELSE [p \in 1..Ceil(len, chunk_size) |->
              <<gen[1] + (p - 1) * chunk_size,
                Min(gen[2], gen[1] + p * chunk_size)>>]

\* The generator run to exhaustion: what it yields and what it raises.
slice_by_max_duration(gen, max_ms, rate) ==
  LET len == SliceLen(gen)
      zde == [type |-> "ZeroDivisionError", at |-> "slice_by_max_duration"]
      ve  == [type |-> "ValueError", at |-> "slice_by_max_duration"]
  IN  IF ~TooLong(len, max_ms, rate)
        THEN [yielded |-> <<gen>>, raised |-> NoError]
      ELSE IF MaxSamplesNum(max_ms, rate) = 0
        THEN [yielded |-> <<>>, raised |-> zde]
      ELSE IF NChunks(len, max_ms, rate) = 0
        THEN [yielded |-> <<>>, raised |-> zde]
      ELSE IF ChunkSize(len, NChunks(len, max_ms, rate)) = 0
        THEN [yielded |-> <<>>, raised |-> ve]    \* range() step of zero
      ELSE [yielded |-> Pieces(gen, ChunkSize(len, NChunks(len, max_ms, rate))),
            raised |-> NoError]

\* --------------------------------------------------------- Slicer.__init__
\* the two validations of the millisecond parameters
ConfigValid(a) ==
  /\ a.min_length >= a.min_interval
  /\ a.min_interval >= a.hop_size
  /\ a.max_sil_kept >= a.hop_size

\* self.hop_size = round(sr * hop_size / 1000)
HopSize(a) == Round(a.sr * a.hop_size, MsPerSecond)

\* the fields the constructor sets when it does not raise
SlicerFields(a) ==
  LET hop == HopSize(a)
  IN  [threshold    |-> threshold,
       hop_size     |-> hop,
       win_size     |-> Min(Round(a.sr * a.min_interval, MsPerSecond),
                            WinHops * hop),
       min_length   |-> Round(a.sr * a.min_length, MsPerSecond * hop),
       min_interval |-> Round(a.sr * a.min_interval, MsPerSecond * hop),
       max_sil_kept |-> Round(a.sr * a.max_sil_kept, MsPerSecond * hop)]

NoSlicer == [threshold |-> 0, hop_size |-> 0, win_size |-> 0,
             min_length |-> 0, min_interval |-> 0, max_sil_kept |-> 0]

\* librosa.feature.rms(y, frame_length = win, hop_length = hop), centred:
\* y is padded by win \div 2 samples on each side and framed
FrameCount(n, win, hop) == 1 + (n + 2 * (win \div 2) - win) \div hop

\* ------------------------------------------------------------------- Init
Args == [sr : SampleRates, min_length : MinLengthMs,
         min_interval : MinIntervalMs, hop_size : HopMs,
         max_sil_kept : MaxSilKeptMs, max_duration : MaxDurationMs]

Init ==
  /\ entry \in {"Slicer", "slice_audio_v2"}
  /\ args \in Args
  /\ entry = "Slicer" => args.max_duration = 0    \* not a Slicer argument
  /\ audio \in 0..MaxSamples
  /\ self = NoSlicer
  /\ pc = "call"
  /\ rms_list = <<>>
  /\ i = 0
  /\ silence_start = None
  /\ clip_start = 0
  /\ sil_tags = <<>>
  /\ chunks = <<>>
  /\ k = 0
  /\ out = <<>>
  /\ err = NoError

\* ---------------------------------------------------------------- actions
\* slice_audio_v2, lines 220-222: the input is shorter than min_duration
ShortAudio ==
  /\ pc = "call"
  /\ entry = "slice_audio_v2"
  /\ audio * MsPerSecond < args.min_length * args.sr
  /\ LET r == slice_by_max_duration(<<0, audio>>, args.max_duration, args.sr)
     IN  /\ out' = r.yielded
         /\ err' = r.raised
         /\ pc' = IF r.raised = NoError THEN "done" ELSE "raised"
  /\ UNCHANGED <<entry, args, audio, self, rms_list, i, silence_start,
                 clip_start, sil_tags, chunks, k>>

\* Slicer.__init__, lines 66-91
Construct ==
  /\ pc = "call"
  /\ entry = "slice_audio_v2" =>
       ~(audio * MsPerSecond < args.min_length * args.sr)
  /\ IF ~ConfigValid(args)
       THEN /\ err' = [type |-> "ValueError", at |-> "Slicer.__init__"]
            /\ pc' = "raised"
            /\ self' = self
       ELSE IF HopSize(args) = 0
         THEN /\ err' = [type |-> "ZeroDivisionError", at |-> "Slicer.__init__"]
              /\ pc' = "raised"
              /\ self' = self
         ELSE /\ err' = err
              /\ pc' = "slice"
              /\ self' = SlicerFields(args)
  /\ UNCHANGED <<entry, args, audio, rms_list, i, silence_start,
                 clip_start, sil_tags, chunks, k, out>>

\* ------------------------------------------------------------ Slicer.slice
Waveform == <<0, audio>>

\* Slicer._apply_slice, lines 94-98 (single-channel branch)
ApplySlice(begin, end) ==
  PySlice(audio, begin * self.hop_size, Min(audio, end * self.hop_size))

\* lines 107-108: samples.shape[0] <= self.min_length
ShortInput ==
  /\ pc = "slice"
  /\ audio <= self.min_length
  /\ chunks' = <<Waveform>>
  /\ pc' = "sliced"
  /\ UNCHANGED <<entry, args, audio, self, rms_list, i, silence_start,
                 clip_start, sil_tags, k, out, err>>

\* lines 110-113: the envelope and the scan's initial markers
ComputeRms ==
  /\ pc = "slice"
  /\ ~(audio <= self.min_length)
  /\ rms_list' \in [1..FrameCount(audio, self.win_size, self.hop_size) -> Levels]
  /\ sil_tags' = <<>>
  /\ silence_start' = None
  /\ clip_start' = 0
  /\ i' = 0
  /\ pc' = "scan"
  /\ UNCHANGED <<entry, args, audio, self, chunks, k, out, err>>

\* line 128
IsLeadingSilence(ss, f) == ss = 0 /\ f > self.max_sil_kept

\* mutant: the kept length must exceed min_length, not reach it
NeedSliceMiddle_Strict(ss, cs, f) ==
  f - ss >= self.min_interval /\ f - cs > self.min_length

\* line 129
NeedSliceMiddle(ss, cs, f) ==
  f - ss >= self.min_interval /\ f - cs >= self.min_length

\* mutant: every run is cut at its single minimum, whatever its length
Cut_WholeRun(rms, ss, f) ==
  LET pos == ArgMin(rms, ss, f + 1) + ss
  IN  [tag  |-> IF ss = 0 THEN <<0, pos>> ELSE <<pos, pos>>,
       clip |-> pos]

\* lines 136-166: the range recorded for the silence run ss .. f - 1 that
\* ends at the non-silent frame f, and the new clip_start
Cut(rms, ss, f) ==
  LET msk == self.max_sil_kept
  IN  IF f - ss <= msk THEN
        LET pos == ArgMin(rms, ss, f + 1) + ss
        IN  [tag  |-> IF ss = 0 THEN <<0, pos>> ELSE <<pos, pos>>,
             clip |-> pos]
      ELSE IF f - ss <= msk * 2 THEN
        LET pos   == ArgMin(rms, f - msk, ss + msk + 1) + f - msk
            pos_l == ArgMin(rms, ss, ss + msk + 1) + ss
            pos_r == ArgMin(rms, f - msk, f + 1) + f - msk
        IN  IF ss = 0
              THEN [tag |-> <<0, pos_r>>, clip |-> pos_r]
              ELSE [tag  |-> <<Min(pos_l, pos), Max(pos_r, pos)>>,
                    clip |-> Max(pos_r, pos)]
      ELSE
        LET pos_l == ArgMin(rms, ss, ss + msk + 1) + ss
            pos_r == ArgMin(rms, f - msk, f + 1) + f - msk
        IN  [tag  |-> IF ss = 0 THEN <<0, pos_r>> ELSE <<pos_l, pos_r>>,
             clip |-> pos_r]

\* mutant: silence_start is not cleared after a range is recorded
ScanFrame_NoReset ==
  /\ pc = "scan"
  /\ i < Len(rms_list)
  /\ i' = i + 1
  /\ IF rms_list[i + 1] < self.threshold THEN
       /\ silence_start' = IF silence_start = None THEN i ELSE silence_start
       /\ UNCHANGED <<clip_start, sil_tags>>
     ELSE IF silence_start = None THEN
       UNCHANGED <<silence_start, clip_start, sil_tags>>
     ELSE IF /\ ~IsLeadingSilence(silence_start, i)
             /\ ~NeedSliceMiddle(silence_start, clip_start, i) THEN
       /\ silence_start' = None
       /\ UNCHANGED <<clip_start, sil_tags>>
     ELSE
       /\ sil_tags' = Append(sil_tags, Cut(rms_list, silence_start, i).tag)
       /\ clip_start' = Cut(rms_list, silence_start, i).clip
       /\ silence_start' = silence_start
  /\ UNCHANGED <<entry, args, audio, self, pc, rms_list, chunks, k, out, err>>

\* lines 115-167: one iteration of the loop over the frames
ScanFrame ==
  /\ pc = "scan"
  /\ i < Len(rms_list)
  /\ i' = i + 1
  /\ IF rms_list[i + 1] < self.threshold THEN
       /\ silence_start' = IF silence_start = None THEN i ELSE silence_start
       /\ UNCHANGED <<clip_start, sil_tags>>
     ELSE IF silence_start = None THEN
       UNCHANGED <<silence_start, clip_start, sil_tags>>
     ELSE IF /\ ~IsLeadingSilence(silence_start, i)
             /\ ~NeedSliceMiddle(silence_start, clip_start, i) THEN
       /\ silence_start' = None
       /\ UNCHANGED <<clip_start, sil_tags>>
     ELSE
       /\ sil_tags' = Append(sil_tags, Cut(rms_list, silence_start, i).tag)
       /\ clip_start' = Cut(rms_list, silence_start, i).clip
       /\ silence_start' = None
  /\ UNCHANGED <<entry, args, audio, self, pc, rms_list, chunks, k, out, err>>

\* mutant: the window stops one frame earlier
TrailingPos_Short(rms, ss) ==
  LET total_frames == Len(rms)
      silence_end == Min(total_frames, ss + self.max_sil_kept)
  IN  ArgMin(rms, ss, silence_end) + ss

\* lines 169-174: the window searched for the trailing range's start
TrailingPos(rms, ss) ==
  LET total_frames == Len(rms)
      silence_end == Min(total_frames, ss + self.max_sil_kept)
  IN  ArgMin(rms, ss, silence_end + 1) + ss

\* lines 169-174: the loop is over; deal with trailing silence
Trailing ==
  /\ pc = "scan"
  /\ i = Len(rms_list)
  /\ IF /\ silence_start # None
        /\ Len(rms_list) - silence_start >= self.min_interval
       THEN sil_tags' = Append(sil_tags,
              <<TrailingPos(rms_list, silence_start), Len(rms_list) + 1>>)
       ELSE sil_tags' = sil_tags
  /\ pc' = "apply"
  /\ UNCHANGED <<entry, args, audio, self, rms_list, i, silence_start,
                 clip_start, chunks, k, out, err>>

\* mutant: the chunk after the last range is forgotten
Chunks_NoFinal(tags, total_frames) ==
  LET n == Len(tags)
      first == IF tags[1][1] > 0
                 THEN <<ApplySlice(0, tags[1][1])>> ELSE <<>>
      middle == [j \in 1..(n - 1) |-> ApplySlice(tags[j][2], tags[j + 1][1])]
  IN  first \o middle

\* lines 182-189: the chunks between the recorded ranges
Chunks(tags, total_frames) ==
  LET n == Len(tags)
      first == IF tags[1][1] > 0
                 THEN <<ApplySlice(0, tags[1][1])>> ELSE <<>>
      middle == [j \in 1..(n - 1) |-> ApplySlice(tags[j][2], tags[j + 1][1])]
      final == IF tags[n][2] < total_frames
                 THEN <<ApplySlice(tags[n][2], total_frames)>> ELSE <<>>
  IN  first \o middle \o final

\* lines 176-191: apply and return slices
Apply ==
  /\ pc = "apply"
  /\ chunks' = IF Len(sil_tags) = 0 THEN <<Waveform>>
               ELSE Chunks(sil_tags, Len(rms_list))
  /\ pc' = "sliced"
  /\ UNCHANGED <<entry, args, audio, self, rms_list, i, silence_start,
                 clip_start, sil_tags, k, out, err>>

\* ---------------------------------------------------------- slice_audio_v2
\* lines 233-234: one iteration of the loop over the chunks
YieldFrom ==
  /\ pc = "sliced"
  /\ entry = "slice_audio_v2"
  /\ k < Len(chunks)
  /\ LET r == slice_by_max_duration(chunks[k + 1], args.max_duration, args.sr)
     IN  /\ out' = out \o r.yielded
         /\ err' = r.raised
         /\ pc' = IF r.raised = NoError THEN "sliced" ELSE "raised"
  /\ k' = k + 1
  /\ UNCHANGED <<entry, args, audio, self, rms_list, i, silence_start,
                 clip_start, sil_tags, chunks>>

\* Slicer.slice has returned to its caller / the generator is exhausted
Return ==
  /\ pc = "sliced"
  /\ entry = "Slicer" \/ k = Len(chunks)
  /\ pc' = "done"
  /\ UNCHANGED <<entry, args, audio, self, rms_list, i, silence_start,
                 clip_start, sil_tags, chunks, k, out, err>>

Next ==
  \/ ShortAudio
  \/ Construct
  \/ ShortInput
  \/ ComputeRms
  \/ ScanFrame
  \/ Trailing
  \/ Apply
  \/ YieldFrom
  \/ Return

Spec == Init /\ [][Next]_vars

TypeOK ==
  /\ pc \in {"call", "slice", "scan", "apply", "sliced", "done", "raised"}
  /\ silence_start \in {None} \cup 0..(MaxSamples + 1)
  /\ \A t \in 1..Len(sil_tags) : sil_tags[t] \in Nat \X Nat
  /\ \A c \in 1..Len(chunks) : chunks[c] \in Nat \X Nat /\ chunks[c][1] <= chunks[c][2]

\* ================================================================ claims
\* Helpers of the claims, written without the operators of the model.
Silent(f) == rms_list[f + 1] < threshold          \* frame f, 0-based
LastTag == sil_tags[Len(sil_tags)]
ViaSlicer == self.hop_size > 0                      \* __init__ has returned
DirectPath == entry = "slice_audio_v2" /\ self.hop_size = 0 /\ pc = "done"
SamplesOf(s) == {x \in 0..(audio - 1) : s[1] <= x /\ x < s[2]}
\* samples of a frame range, times hop_size, clamped to the waveform
TagSamples(t) ==
  {x \in 0..(audio - 1) : t[1] * self.hop_size <= x /\ x < t[2] * self.hop_size}

\* C1: every slice yielded by slice_audio_v2 under a positive max_duration
\* has fewer than max_duration * rate + 1 samples.
C1_MaxDurationBound ==
  (entry = "slice_audio_v2" /\ args.max_duration > 0) =>
    \A p \in 1..Len(out) :
      (out[p][2] - out[p][1]) * 1000 < args.max_duration * args.sr + 1000

\* a chunk of Slicer.slice was split, and a piece exceeds max_duration * rate
\* by a fraction of a sample
C1_Witness ==
  /\ entry = "slice_audio_v2" /\ args.max_duration > 0
  /\ pc = "done" /\ Len(chunks) >= 2 /\ Len(out) > Len(chunks)
  /\ \E p \in 1..Len(out) :
       (out[p][2] - out[p][1]) * 1000 > args.max_duration * args.sr

\* C2: the slices Slicer.slice returns are disjoint, in increasing order,
\* and together hold exactly the samples outside the recorded ranges.
C2_Coverage ==
  (pc \in {"sliced", "done"} /\ ViaSlicer) =>
    /\ \A a, b \in 1..Len(chunks) :
         a < b => chunks[a][1] <= chunks[a][2] /\ chunks[a][2] <= chunks[b][1]
    /\ UNION {SamplesOf(chunks[c]) : c \in 1..Len(chunks)}
         = (0..(audio - 1)) \ UNION {TagSamples(sil_tags[t]) : t \in 1..Len(sil_tags)}

C2_Witness ==
  /\ pc = "sliced" /\ ViaSlicer
  /\ Len(sil_tags) >= 2 /\ Len(chunks) >= 2
  /\ \E t \in 1..Len(sil_tags) : TagSamples(sil_tags[t]) # {}
  /\ \E t \in 1..Len(sil_tags) : sil_tags[t][1] = sil_tags[t][2]

\* C4: throughout the scan and after the trailing step the recorded ranges
\* have start <= end and start >= the previous range's end.
C4_MonotonicRanges ==
  \A t \in 1..Len(sil_tags) :
    /\ sil_tags[t][1] <= sil_tags[t][2]
    /\ t > 1 => sil_tags[t][1] >= sil_tags[t - 1][2]

C4_Witness ==
  /\ pc = "apply" /\ Len(sil_tags) >= 3
  /\ LastTag[2] = Len(rms_list) + 1

\* C3: a waveform of at most min_length envelope frames comes back from
\* Slicer.slice as the single slice holding the whole input.  (The frames
\* are counted as 1 + N \div hop_size, which is never less than the
\* envelope's length nor than ceil(N / hop_size).)
C3_ShortInputFallback ==
  (pc \in {"sliced", "done"} /\ ViaSlicer
     /\ 1 + audio \div self.hop_size <= self.min_length) =>
    chunks = <<<<0, audio>>>>

\* ceil(len / M) for the samples M = max_duration * rate > 0, and the
\* piece size ceil(len / n)
CeilOverMax(gen) ==
  -((-((gen[2] - gen[1]) * 1000)) \div (args.max_duration * args.sr))
PieceSize(gen) == -((-(gen[2] - gen[1])) \div CeilOverMax(gen))
Exceeds(gen) == (gen[2] - gen[1]) * 1000 > args.max_duration * args.sr

\* yielded is gen cut into contiguous pieces of the given size, in order,
\* the last one possibly shorter but not empty
SplitInto(gen, yielded, size) ==
  \A p \in 1..Len(yielded) :
    /\ yielded[p][1] = gen[1] + (p - 1) * size
    /\ p < Len(yielded) => yielded[p][2] = yielded[p][1] + size
    /\ p = Len(yielded) =>
         /\ yielded[p][2] = gen[2]
         /\ yielded[p][2] > yielded[p][1]
         /\ yielded[p][2] <= yielded[p][1] + size

\* C5 as stated, for one input and what the generator yielded for it
ExactlyN(gen, yielded) ==
  IF Exceeds(gen)
    THEN /\ Len(yielded) = CeilOverMax(gen)
         /\ SplitInto(gen, yielded, PieceSize(gen))
    ELSE yielded = <<gen>>

\* C5 as amended
AtMostN(gen, yielded) ==
  IF Exceeds(gen)
    THEN /\ Len(yielded) = -((-(gen[2] - gen[1])) \div PieceSize(gen))
         /\ Len(yielded) <= CeilOverMax(gen)
         /\ (args.max_duration * args.sr) % 1000 = 0 =>
              Len(yielded) = CeilOverMax(gen)
         /\ SplitInto(gen, yielded, PieceSize(gen))
    ELSE yielded = <<gen>>

\* C5 as stated: under a positive max_duration, an input longer than
\* max_duration * rate is yielded as exactly n = ceil(len / (max_duration *
\* rate)) contiguous pieces of size ceil(len / n), the last possibly
\* shorter; any other input is yielded unchanged.
C5_ExactlyNPieces ==
  [][args.max_duration > 0 =>
       /\ (pc = "call" /\ pc' = "done") => ExactlyN(<<0, audio>>, out')
       /\ (pc = "sliced" /\ k' = k + 1) =>
            ExactlyN(chunks[k + 1], SubSeq(out', Len(out) + 1, Len(out')))]_vars

\* C5 amended: the pieces are as stated, but there are ceil(len / ceil(len /
\* n)) of them: never more than n, and n whenever max_duration * rate is a
\* whole number of samples.
C5_EvenSplit ==
  [][args.max_duration > 0 =>
       /\ (pc = "call" /\ pc' = "done") => AtMostN(<<0, audio>>, out')
       /\ (pc = "sliced" /\ k' = k + 1) =>
            AtMostN(chunks[k + 1], SubSeq(out', Len(out) + 1, Len(out')))]_vars

\* the latest chunk of Slicer.slice was split into two or more pieces, fewer
\* than n
C5_Witness ==
  /\ entry = "slice_audio_v2" /\ args.max_duration > 0
  /\ pc = "sliced" /\ k >= 1 /\ Exceeds(chunks[k])
  /\ LET mine == {p \in 1..Len(out) : out[p][1] >= chunks[k][1]}
     IN  Cardinality(mine) >= 2 /\ Cardinality(mine) < CeilOverMax(chunks[k])

\* C6: the Slicer raises nothing but the configuration error, and raises it
\* exactly when the millisecond parameters are out of order.
C6_OnlyConfigError ==
  LET ordered == /\ args.min_length >= args.min_interval
                 /\ args.min_interval >= args.hop_size
                 /\ args.max_sil_kept >= args.hop_size
  IN  /\ err.at = "Slicer.__init__" => err.type = "ValueError" /\ ~ordered
      /\ pc \in {"slice", "scan", "apply", "sliced"} => ordered
      /\ err.at = "Slicer.slice" => FALSE

\* C7: a non-positive max_duration makes slice_by_max_duration fail, once it
\* has been run to its end.
C7_RejectsNonPositive ==
  (entry = "slice_audio_v2" /\ args.max_duration <= 0
     /\ (DirectPath \/ k >= 1)) =>
    err.at = "slice_by_max_duration"

\* The scan has just left a silence run at the non-silent frame i - 1 and
\* recorded a range for it: the latest range starts inside that run.
JustCut ==
  /\ pc = "scan" /\ i >= 2 /\ ~Silent(i - 1) /\ Silent(i - 2)
  /\ silence_start = None
  /\ Len(sil_tags) >= 1
  /\ LastTag[1] <= i - 2
  /\ \A f \in LastTag[1]..(i - 2) : Silent(f)

\* C8: at a non-silent frame i with an open silence run, a range is recorded
\* iff the run starts at frame 0 and is longer than max_sil_kept, or the run
\* is at least min_interval long and i - clip_start >= min_length; without a
\* range clip_start is unchanged; silence_start is none afterwards.
C8_ExitDecision ==
  [][(pc = "scan" /\ i < Len(rms_list) /\ ~Silent(i) /\ silence_start # None) =>
       LET act == \/ silence_start = 0 /\ i - silence_start > self.max_sil_kept
                  \/ /\ i - silence_start >= self.min_interval
                     /\ i - clip_start >= self.min_length
       IN  /\ act <=> Len(sil_tags') = Len(sil_tags) + 1
           /\ SubSeq(sil_tags', 1, Len(sil_tags)) = sil_tags
           /\ ~act => sil_tags' = sil_tags /\ clip_start' = clip_start
           /\ silence_start' = None]_vars

\* a run in the middle of the waveform was passed over, a later one was cut
C8_Witness ==
  /\ JustCut /\ LastTag[1] > 0
  /\ \E f \in 1..(LastTag[1] - 1) :
       /\ Silent(f) /\ ~Silent(f - 1)
       /\ \E g \in (f + 1)..(LastTag[1] - 1) : ~Silent(g)
       /\ \A t \in 1..Len(sil_tags) : sil_tags[t][2] < f \/ sil_tags[t][1] > f

\* first minimum of the envelope over the frames a .. b (0-based, a <= b)
FirstMin(a, b) ==
  CHOOSE j \in a..b : /\ \A m \in a..b : rms_list[j + 1] <= rms_list[m + 1]
                      /\ \A m \in a..(j - 1) : rms_list[m + 1] # rms_list[j + 1]

\* C9 for a window of the given number of frames at the start of the open
\* run: a long enough open run gets exactly one final range (pos, total + 1)
\* with pos the window's first minimum, and then no returned slice holds a
\* sample at or after pos * hop_size; a shorter run gets none.
TrailingRule(window) ==
  LET total == Len(rms_list)
      open  == silence_start # None /\ total - silence_start >= self.min_interval
      pos   == FirstMin(silence_start,
                        Min(total, silence_start + window) - 1)
  IN  /\ (pc = "scan" /\ pc' = "apply") =>
           IF open THEN sil_tags' = sil_tags \o <<<<pos, total + 1>>>>
                   ELSE sil_tags' = sil_tags
      /\ (pc = "apply" /\ pc' = "sliced" /\ open) =>
           \A c \in 1..Len(chunks') : chunks'[c][2] <= pos * self.hop_size

\* C9 as stated: the window is the first max_sil_kept frames of the run.
C9_TrailingFirstFrames == [][TrailingRule(self.max_sil_kept)]_vars

\* C9 amended: the window is the first max_sil_kept + 1 frames of the run.
C9_TrailingSilence == [][TrailingRule(self.max_sil_kept + 1)]_vars

\* the final range starts max_sil_kept frames into the open run
C9_Witness ==
  /\ pc = "sliced" /\ ViaSlicer /\ silence_start # None
  /\ Len(sil_tags) >= 1
  /\ LastTag = <<silence_start + self.max_sil_kept, Len(rms_list) + 1>>
  /\ Len(chunks) >= 1

\* C10: a recorded range leaves at most max_sil_kept frames of its run on
\* each side (start - silence_start for runs not at frame 0, i - end for all
\* runs); for a run not at frame 0 of at most max_sil_kept frames the range
\* is (pos, pos) with silence_start <= pos <= i, and clip_start becomes pos.
C10_SilenceKept ==
  [][(pc = "scan" /\ pc' = "scan" /\ Len(sil_tags') = Len(sil_tags) + 1) =>
       LET tag == sil_tags'[Len(sil_tags')]
       IN  /\ silence_start # 0 => tag[1] - silence_start <= self.max_sil_kept
           /\ i - tag[2] <= self.max_sil_kept
           /\ (silence_start # 0 /\ i - silence_start <= self.max_sil_kept) =>
                /\ tag[1] = tag[2]
                /\ silence_start <= tag[1] /\ tag[1] <= i
                /\ clip_start' = tag[1]]_vars

\* a run longer than 2 * max_sil_kept in the middle of the waveform was
\* trimmed to a range of positive width that keeps silence on both sides
C10_Witness ==
  /\ JustCut /\ LastTag[1] > 0 /\ LastTag[2] > LastTag[1]
  /\ Silent(LastTag[1] - 1) /\ LastTag[2] < i - 1
====
